---- MODULE Spec2Model ----
(***************************************************************************)
(* State-machine model of the API-generation pipeline: the workflow graph  *)
(* of src/workflow.py and the five node classes of src/nodes/.             *)
(*                                                                         *)
(* External collaborators (the document reader, the LLM client, the        *)
(* telemetry client, subprocess, the test runner, the file system) are     *)
(* opaque: every call either returns or raises, chosen nondeterministically.*)
(* Strings built with f-strings are modelled as sequences of their parts,  *)
(* so that "prefix: {e}" is <<"prefix: ">> \o e.                           *)
(***************************************************************************)
EXTENDS Integers, Sequences, FiniteSets, TLC

VARIABLES
    current,     \* the node the graph executes next, or the position of run_workflow
    state,       \* the State dict threaded through the nodes
    exc,         \* the exception propagating to run_workflow (<<>> when none)
    output,      \* second component of the value the last terminal node returned
    history,     \* nodes executed so far, in order
    returns,     \* one record per finished stage invocation, aligned with history
    entry,       \* lengths of logs/errors when the running stage was entered
    calls,       \* external calls issued so far, in order
    dpc,         \* position inside DebuggerNode.run
    test_output, \* raw output of the latest run_tests call
    queue,       \* failing files still to be repaired in the current pass
    files,       \* the generated files on disk: path -> content tag
    response     \* outcome of the latest completion request of srs_parser()

vars == <<current, state, exc, output, history, returns, entry, calls,
          dpc, test_output, queue, files, response>>

-----------------------------------------------------------------------------
(* Bounds *)

MaxEndpoints == 2
MaxModels == 1
MaxFailLines == 2

(* Exception messages the collaborators can raise with. *)
Msgs == {"boom"}

(* Source references handed to run_workflow; no node looks into the path, *)
(* what the document reader makes of it is an outcome of its own.         *)
SrsPaths == {"test.docx"}

-----------------------------------------------------------------------------
(* Generic helpers *)

IsPrefix(s, t) == /\ Len(s) <= Len(t)
                  /\ \A i \in 1..Len(s) : s[i] = t[i]

Count(seq, x) == Cardinality({i \in 1..Len(seq) : seq[i] = x})

RECURSIVE SeqsUpTo(_, _)
SeqsUpTo(S, n) ==
    IF n = 0 THEN {<<>>}
    ELSE LET shorter == SeqsUpTo(S, n - 1)
         IN shorter \cup {Append(s, x) : s \in {t \in shorter : Len(t) = n - 1}, x \in S}

NoDup(seq) == \A i, j \in 1..Len(seq) : i # j => seq[i] # seq[j]

AddLog(s, m) == [s EXCEPT !.logs = Append(@, m)]
AddError(s, m) == [s EXCEPT !.errors = Append(@, m)]

-----------------------------------------------------------------------------
(* The workflow graph: create_workflow *)

Stages == {"project_initializer", "srs_parser", "test_generator",
           "code_generator", "debugger"}

Nodes == Stages \cup {"error_handler", "complete"}


(* Mutant: the entry point set to the parser. *)
EntryPointParser == "srs_parser"

EntryPoint == "project_initializer"


(* Mutant: the success guard compares with the wrong identifier. *)
is_success_wrong_id(id) == id # "error"

is_success(id) == id # "error_handler"

(* Mutant: the error guard accepts every result. *)
is_error_always(id) == TRUE

is_error(id) == id = "error_handler"


(* Mutant: the success edge of test_generator skips code_generator. *)
EdgesSkip == <<
    <<"project_initializer", "srs_parser", "is_success">>,
    <<"project_initializer", "error_handler", "is_error">>,
    <<"srs_parser", "test_generator", "is_success">>,
    <<"srs_parser", "error_handler", "is_error">>,
    <<"test_generator", "debugger", "is_success">>,
    <<"test_generator", "error_handler", "is_error">>,
    <<"code_generator", "debugger", "is_success">>,
    <<"code_generator", "error_handler", "is_error">>,
    <<"debugger", "complete", "is_success">>,
    <<"debugger", "error_handler", "is_error">> >>

(* The edges in the order of their add_edge calls: <<from, to, guard>>. *)
Edges == <<
    <<"project_initializer", "srs_parser", "is_success">>,
    <<"project_initializer", "error_handler", "is_error">>,
    <<"srs_parser", "test_generator", "is_success">>,
    <<"srs_parser", "error_handler", "is_error">>,
    <<"test_generator", "code_generator", "is_success">>,
    <<"test_generator", "error_handler", "is_error">>,
    <<"code_generator", "debugger", "is_success">>,
    <<"code_generator", "error_handler", "is_error">>,
    <<"debugger", "complete", "is_success">>,
    <<"debugger", "error_handler", "is_error">> >>

Accepts(guard, id) == IF guard = "is_success" THEN is_success(id) ELSE is_error(id)

(* Indices of the outgoing edges of n whose guard accepts the result id. *)
Accepting(n, id) == {i \in 1..Len(Edges) : Edges[i][1] = n /\ Accepts(Edges[i][3], id)}

Min(S) == CHOOSE x \in S : \A y \in S : x <= y

(* Mutant: after the sink the run starts over. *)
SelectEdgeRetry(n, id) ==
    IF n = "error_handler" THEN "project_initializer"
    ELSE IF Accepting(n, id) = {} THEN "END" ELSE Edges[Min(Accepting(n, id))][2]

(* The node executed after n returned id: the target of the first accepting *)
(* edge; a node without (accepting) outgoing edges ends the run.            *)
SelectEdge(n, id) ==
    IF Accepting(n, id) = {} THEN "END" ELSE Edges[Min(Accepting(n, id))][2]

-----------------------------------------------------------------------------
(* run_workflow: the initial State *)

(* No completion request has been made. *)
NoResponse == [status |-> "none", text |-> <<>>]

initial_state(path) ==
    [srs_path |-> path,
     requirements |-> [keys |-> {}, endpoints |-> <<>>, models |-> <<>>,
                       auth |-> "none", features |-> <<>>],
     logs |-> <<>>,
     errors |-> <<>>]

Init ==
    /\ current = "create_workflow"
    /\ \E p \in SrsPaths : state = initial_state(p)
    /\ exc = <<>>
    /\ output = "none"
    /\ history = <<>>
    /\ returns = <<>>
    /\ entry = [logs |-> 0, errors |-> 0]
    /\ calls = <<>>
    /\ dpc = "idle"
    /\ test_output = <<>>
    /\ queue = <<>>
    /\ files = [p \in {} |-> "x"]
    /\ response = NoResponse

-----------------------------------------------------------------------------
(* Outcomes of external calls *)

Ok == [ok |-> TRUE, e |-> <<>>]
Raise(parts) == [ok |-> FALSE, e |-> parts]

(* A call that returns or raises an arbitrary exception. *)
CallOutcomes == {Ok} \cup {Raise(<<m>>) : m \in Msgs}

(* A subprocess.run(check=True) call: returns, raises CalledProcessError, *)
(* or raises something else (e.g. the executable is missing).            *)
ProcOutcomes == {"ok", "CalledProcessError", "OtherError"}

(* The result of one stage invocation. id = "raised" when an exception  *)
(* leaves run(); exc is then its message.                                *)
Result(s, id, e, cs) == [state |-> s, id |-> id, exc |-> e, calls |-> cs]

(* File paths: a directory and the parts of the file name. *)
Path(dir, name) == [dir |-> dir, file |-> name]
NoPath == Path("", <<>>)

(* An entry of the call record: the operation and the file it concerns. *)
Call(op) == [op |-> op, arg |-> NoPath]
CallOn(op, path) == [op |-> op, arg |-> path]

Write(fs, path, content) ==
    [p \in DOMAIN fs \cup {path} |-> IF p = path THEN content ELSE fs[p]]

-----------------------------------------------------------------------------
(* ProjectInitializerNode *)

create_project_structure(fs) ==
    IF fs.ok THEN Ok ELSE Raise(<<"Error creating project structure: ">> \o fs.e)

setup_podman_postgres(proc, m) ==
    CASE proc = "ok" -> Ok
      [] proc = "CalledProcessError" -> Raise(<<"Error setting up Podman PostgreSQL: ", m>>)
      [] OTHER -> Raise(<<m>>)

create_virtual_environment(proc, m) ==
    CASE proc = "ok" -> Ok
      [] proc = "CalledProcessError" -> Raise(<<"Error creating virtual environment: ", m>>)
      [] OTHER -> Raise(<<m>>)

ProjectInitializerFail(s, e, cs) ==
    Result(AddLog(AddError(s, <<"Project initialization error: ">> \o e),
                  <<"Error initializing project: ">> \o e),
           "error_handler", <<>>, cs)


(* Mutant: success without a log entry. *)
ProjectInitializerSucceedSilent(s, cs) ==
    Result(s, "test_generator", <<>>, cs)

ProjectInitializerSucceed(s, cs) ==
    Result(AddLog(s, <<"Successfully initialized project structure">>),
           "test_generator", <<>>, cs)

ProjectInitializerRun(s, fs, db, venv, m) ==
    LET a == create_project_structure(fs)
        b == setup_podman_postgres(db, m)
        c == create_virtual_environment(venv, m)
    IN  IF ~a.ok THEN ProjectInitializerFail(s, a.e, <<Call("create_project_structure")>>)
        ELSE IF ~b.ok THEN
            ProjectInitializerFail(s, b.e,
                <<Call("create_project_structure"), Call("setup_podman_postgres")>>)
        ELSE IF ~c.ok THEN
            ProjectInitializerFail(s, c.e,
                <<Call("create_project_structure"), Call("setup_podman_postgres"),
                  Call("create_virtual_environment")>>)
        ELSE ProjectInitializerSucceed(s,
                <<Call("create_project_structure"), Call("setup_podman_postgres"),
                  Call("create_virtual_environment")>>)

-----------------------------------------------------------------------------
(* SRSParserNode *)

(* Endpoints are kept as their '/'-separated segments. *)
EndpointNames == {<<"api", "users">>, <<"api", "v2", "users">>}
ModelNames == {"FooBar", "Foobar"}

(* What extract_requirements finds in a readable document: the endpoint and *)
(* model lists are duplicate-free (lines 169-177), auth is {} or has a type, *)
(* and expiry tells whether an auth paragraph mentions a duration.           *)
Documents ==
    [endpoints : {q \in SeqsUpTo(EndpointNames, MaxEndpoints) : NoDup(q)},
     models : {q \in SeqsUpTo(ModelNames, MaxModels) : NoDup(q)},
     auth : {"none", "JWT"},
     expiry : BOOLEAN]

(* Mutant: the auth key is only set when an auth paragraph was found. *)
extract_requirements_found_only(reader, doc) ==
    IF ~reader.ok THEN Raise(<<"Error extracting requirements: ">> \o reader.e)
    ELSE IF doc.expiry THEN Raise(<<"Error extracting requirements: ", "no such group">>)
    ELSE [ok |-> TRUE, e |-> <<>>,
          requirements |-> [keys |-> {"endpoints", "models", "features"}
                                     \cup (IF doc.auth # "none" THEN {"auth"} ELSE {}),
                            endpoints |-> doc.endpoints, models |-> doc.models,
                            auth |-> doc.auth, features |-> <<>>]]

(* reader is the outcome of docx.Document(doc_path); the expiry branch reads *)
(* group 2 of a pattern that has one group (line 199), which raises.         *)
extract_requirements(reader, doc) ==
    IF ~reader.ok THEN Raise(<<"Error extracting requirements: ">> \o reader.e)
    ELSE IF doc.expiry THEN Raise(<<"Error extracting requirements: ", "no such group">>)
    ELSE [ok |-> TRUE, e |-> <<>>,
          requirements |-> [keys |-> {"endpoints", "models", "auth", "features"},
                            endpoints |-> doc.endpoints, models |-> doc.models,
                            auth |-> doc.auth, features |-> <<>>]]

(* The except block of run: the telemetry update is itself unprotected. *)
SRSParserFail(s, e, errUpdate, cs) ==
    LET s2 == AddLog(AddError(s, <<"Error parsing SRS document: ">> \o e),
                     <<"Failed to parse SRS document">>)
    IN  IF errUpdate.ok THEN Result(s2, "error_handler", <<>>, cs)
        ELSE Result(s2, "raised", errUpdate.e, cs)

SRSParserRun(s, createRun, reader, doc, updateRun, errUpdate) ==
    LET x == extract_requirements(reader, doc)
    IN  IF ~createRun.ok THEN SRSParserFail(s, createRun.e, errUpdate, <<>>)
        ELSE IF ~x.ok THEN SRSParserFail(s, x.e, errUpdate, <<Call("docx.Document")>>)
        ELSE LET s2 == AddLog([s EXCEPT !.requirements = x.requirements],
                    <<"Successfully parsed SRS document and extracted requirements">>)
             IN  IF ~updateRun.ok
                 THEN SRSParserFail(s2, updateRun.e, errUpdate, <<Call("docx.Document")>>)
                 ELSE Result(s2, "test_generator", <<>>, <<Call("docx.Document")>>)

-----------------------------------------------------------------------------
(* Per-item generation shared by TestGeneratorNode and CodeGeneratorNode *)

(* str.lower() on the model names of the model. *)
Lower(m) == CASE m = "FooBar" -> "foobar"
              [] m = "Foobar" -> "foobar"

(* endpoint.split('/')[-1] *)
Resource(endpoint) == endpoint[Len(endpoint)]

(* The text the LLM returns for a target. *)
Response(target) == <<"response", target.phase>> \o target.item

(* Where a per-item loop stops: k = 0 is no failure; otherwise item k fails *)
(* in the LLM call, in the file write, or in the telemetry call after it.   *)
FailKinds == {"llm", "write", "telemetry"}

(* Number of leading targets whose file has been written. *)
Written(n, k, kind) == IF k = 0 THEN n ELSE IF kind = "telemetry" THEN k ELSE k - 1

(* Number of leading targets for which the LLM has been called. *)
Prompted(n, k) == IF k = 0 THEN n ELSE k

RECURSIVE WriteAll(_, _, _)
WriteAll(fs, targets, n) ==
    IF n = 0 THEN fs
    ELSE Write(WriteAll(fs, targets, n - 1), targets[n].path, Response(targets[n]))

(* Mutant: the LLM calls of all targets are issued before any file is *)
(* written.                                                           *)
GenerationCallsGathered(targets, prompted, written) ==
    [i \in 1..prompted |-> CallOn("llm", targets[i].path)]
    \o [i \in 1..written |-> CallOn("write", targets[i].path)]

RECURSIVE GenerationCalls(_, _, _)
GenerationCalls(targets, prompted, written) ==
    IF prompted = 0 THEN <<>>
    ELSE GenerationCalls(targets, prompted - 1, written)
         \o <<CallOn("llm", targets[prompted].path)>>
         \o (IF prompted <= written THEN <<CallOn("write", targets[prompted].path)>>
             ELSE <<>>)

-----------------------------------------------------------------------------
(* TestGeneratorNode *)

TestDir == "generated_api/tests"
TestRoutesDir == "generated_api/tests/test_routes"
TestModelsDir == "generated_api/tests/test_models"

ApiTestTarget(endpoint) ==
    [phase |-> "api", item |-> endpoint,
     path |-> Path(TestRoutesDir, <<"test_", Resource(endpoint), ".py">>)]

ModelTestTarget(model) ==
    [phase |-> "model", item |-> <<model>>,
     path |-> Path(TestModelsDir, <<"test_", Lower(model), ".py">>)]

AuthTestTarget(auth) ==
    [phase |-> "auth", item |-> <<auth>>,
     path |-> Path(TestDir, <<"test_auth.py">>)]

(* The targets of run in the order they are generated. *)
TestGeneratorTargets(req) ==
    (IF "endpoints" \in req.keys
     THEN [i \in 1..Len(req.endpoints) |-> ApiTestTarget(req.endpoints[i])] ELSE <<>>)
    \o (IF "models" \in req.keys
        THEN [i \in 1..Len(req.models) |-> ModelTestTarget(req.models[i])] ELSE <<>>)
    \o (IF "auth" \in req.keys THEN <<AuthTestTarget(req.auth)>> ELSE <<>>)

TestGeneratorWrap(phase) ==
    CASE phase = "api" -> "Error generating API tests: "
      [] phase = "model" -> "Error generating model tests: "
      [] phase = "auth" -> "Error generating auth tests: "

StageResult(s, id, e, cs, fs) ==
    [state |-> s, id |-> id, exc |-> e, calls |-> cs, files |-> fs]


(* Mutant: the except block returns the success identifier. *)
TestGeneratorFailOnward(s, e, errUpdate, cs, fs) ==
    StageResult(AddLog(AddError(s, <<"Test generation error: ">> \o e),
                       <<"Error generating tests: ">> \o e),
                "code_generator", <<>>, cs, fs)

(* The except block of run; its telemetry update is unprotected. *)
TestGeneratorFail(s, e, errUpdate, cs, fs) ==
    LET s2 == AddLog(AddError(s, <<"Test generation error: ">> \o e),
                     <<"Error generating tests: ">> \o e)
    IN  IF errUpdate.ok THEN StageResult(s2, "error_handler", <<>>, cs, fs)
        ELSE StageResult(s2, "raised", errUpdate.e, cs, fs)

(* tel: the outcomes of the telemetry calls of run (createRun, updateRun,   *)
(* errUpdate) and of the error report inside a failing generator (errRun).  *)
TestGeneratorRun(s, fs, tel, dirs, k, kind, m) ==
    LET targets == TestGeneratorTargets(s.requirements)
        n == Len(targets)
        fs2 == WriteAll(fs, targets, Written(n, k, kind))
        cs == GenerationCalls(targets, Prompted(n, k), Written(n, k, kind))
    IN  IF ~tel.createRun.ok THEN TestGeneratorFail(s, tel.createRun.e, tel.errUpdate, <<>>, fs)
        ELSE IF ~dirs.ok THEN TestGeneratorFail(s, dirs.e, tel.errUpdate, <<>>, fs)
        ELSE IF k # 0 THEN
            TestGeneratorFail(s,
                IF tel.errRun.ok THEN <<TestGeneratorWrap(targets[k].phase), m>>
                ELSE tel.errRun.e,
                tel.errUpdate, cs, fs2)
        ELSE LET s2 == AddLog(s, <<"Successfully generated test cases">>)
             IN  IF ~tel.updateRun.ok
                 THEN TestGeneratorFail(s2, tel.updateRun.e, tel.errUpdate, cs, fs2)
                 ELSE StageResult(s2, "code_generator", <<>>, cs, fs2)

-----------------------------------------------------------------------------
(* CodeGeneratorNode *)

AppModelsDir == "generated_api/app/models"
AppRoutesDir == "generated_api/app/api/routes"
AppServicesDir == "generated_api/app/services"

ModelTarget(model) ==
    [phase |-> "model", item |-> <<model>>,
     path |-> Path(AppModelsDir, <<Lower(model), ".py">>)]

RouteTarget(endpoint) ==
    [phase |-> "route", item |-> endpoint,
     path |-> Path(AppRoutesDir, <<Resource(endpoint), ".py">>)]

ServiceTarget(model) ==
    [phase |-> "service", item |-> <<model>>,
     path |-> Path(AppServicesDir, <<Lower(model), "_service.py">>)]

(* requirements.get("endpoints", []) and requirements.get("models", []) *)
CodeGeneratorTargets(req) ==
    LET endpoints == IF "endpoints" \in req.keys THEN req.endpoints ELSE <<>>
        models == IF "models" \in req.keys THEN req.models ELSE <<>>
    IN  [i \in 1..Len(models) |-> ModelTarget(models[i])]
        \o [i \in 1..Len(endpoints) |-> RouteTarget(endpoints[i])]
        \o [i \in 1..Len(models) |-> ServiceTarget(models[i])]

CodeGeneratorWrap(phase) ==
    CASE phase = "model" -> "Error generating model code: "
      [] phase = "route" -> "Error generating route code: "
      [] phase = "service" -> "Error generating service code: "

(* Mutant: the except block hands on a State with empty requirements. *)
CodeGeneratorFailResetting(s, e, errUpdate, cs, fs) ==
    StageResult([AddLog(AddError(s, <<"Code generation error: ">> \o e),
                        <<"Error generating code: ">> \o e)
                    EXCEPT !.requirements = initial_state("").requirements],
                "error_handler", <<>>, cs, fs)

CodeGeneratorFail(s, e, errUpdate, cs, fs) ==
    LET s2 == AddLog(AddError(s, <<"Code generation error: ">> \o e),
                     <<"Error generating code: ">> \o e)
    IN  IF errUpdate.ok THEN StageResult(s2, "error_handler", <<>>, cs, fs)
        ELSE StageResult(s2, "raised", errUpdate.e, cs, fs)

(* The first telemetry call of run sits before its try block. *)
CodeGeneratorRun(s, fs, tel, dirs, k, kind, m) ==
    LET targets == CodeGeneratorTargets(s.requirements)
        n == Len(targets)
        fs2 == WriteAll(fs, targets, Written(n, k, kind))
        cs == GenerationCalls(targets, Prompted(n, k), Written(n, k, kind))
    IN  IF ~tel.createRun.ok THEN StageResult(s, "raised", tel.createRun.e, <<>>, fs)
        ELSE IF ~dirs.ok THEN CodeGeneratorFail(s, dirs.e, tel.errUpdate, <<>>, fs)
        ELSE IF k # 0 THEN
            CodeGeneratorFail(s,
                IF tel.errRun.ok THEN <<CodeGeneratorWrap(targets[k].phase), m>>
                ELSE tel.errRun.e,
                tel.errUpdate, cs, fs2)
        ELSE LET s2 == AddLog(s, <<"Successfully generated application code">>)
             IN  IF ~tel.updateRun.ok
                 THEN CodeGeneratorFail(s2, tel.updateRun.e, tel.errUpdate, cs, fs2)
                 ELSE StageResult(s2, "debugger", <<>>, cs, fs2)

Telemetry == [createRun : CallOutcomes, errRun : CallOutcomes,
              updateRun : CallOutcomes, errUpdate : CallOutcomes]

-----------------------------------------------------------------------------
(* DebuggerNode *)

(* A line of test output: whether it holds the "FAILED" and "::" markers, *)
(* and the text before the first "::" as <prefix><dirs>/<name>.           *)
Line(marker, prefix, dirs, name) ==
    [marker |-> marker, prefix |-> prefix, dirs |-> dirs, name |-> name]

(* str(exit code) *)
ExitCodeOutput(code) == <<Line(FALSE, "", <<>>, <<code>>)>>

FailureLines ==
    {Line(TRUE, "tests/", <<>>, <<"test_auth.py">>),
     Line(TRUE, "", <<>>, <<"test_auth.py">>),
     Line(TRUE, "tests/", <<"test_routes">>, <<"test_", "users", ".py">>),
     Line(TRUE, "", <<"test_routes">>, <<"test_", "users", ".py">>)}

(* Messages an exception of pytest.main can carry. *)
ExceptionOutputs == SeqsUpTo(FailureLines, MaxFailLines)

(* run_tests: (exit code == 0, str(exit code)), or (False, str(e)). *)
run_tests_results ==
    {[passed |-> TRUE, output |-> ExitCodeOutput("0")],
     [passed |-> FALSE, output |-> ExitCodeOutput("1")]}
    \cup {[passed |-> FALSE, output |-> o] : o \in ExceptionOutputs}

(* os.path.join(self.test_dir, <dirs>) *)
JoinTestDir(dirs) ==
    CASE dirs = <<>> -> TestDir
      [] dirs = <<"test_routes">> -> TestRoutesDir
      [] dirs = <<"test_models">> -> TestModelsDir

FullPath(line) ==
    IF line.prefix = "tests/" THEN Path(TestDir, line.name)
    ELSE Path(JoinTestDir(line.dirs), line.name)

(* Mutant: every line of the output is taken for a failure line. *)
_extract_every_line(out) == [i \in 1..Len(out) |-> FullPath(out[i])]

(* Mutant: only the first failing file is reported. *)
_extract_first_failing_file(out) ==
    LET failed == SelectSeq(out, LAMBDA l : l.marker)
    IN  IF failed = <<>> THEN <<>> ELSE <<FullPath(failed[1])>>

RECURSIVE _extract_failing_files(_)
_extract_failing_files(out) ==
    IF out = <<>> THEN <<>>
    ELSE (IF Head(out).marker THEN <<FullPath(Head(out))>> ELSE <<>>)
         \o _extract_failing_files(Tail(out))

(* The result of one step of run: id = "running" while run has not ended. *)
StepResult(s, id, e, pc, cs) ==
    [state |-> s, id |-> id, exc |-> e, dpc |-> pc, calls |-> cs]

(* The except block of run; its telemetry update is unprotected. *)
DebuggerFail(s, e, errUpdate, cs) ==
    LET s2 == AddLog(AddError(s, <<"Debugging error: ">> \o e),
                     <<"Error during debugging: ">> \o e)
    IN  IF errUpdate.ok THEN StepResult(s2, "error_handler", <<>>, "FAILED", cs)
        ELSE StepResult(s2, "raised", errUpdate.e, "FAILED", cs)

(* Line 126: the first telemetry call sits before the try block. *)
DebuggerEnter(s, createRun) ==
    IF createRun.ok THEN StepResult(s, "running", <<>>, "RUN", <<>>)
    ELSE StepResult(s, "raised", createRun.e, "FAILED", <<>>)

(* Lines 132-144: the first test execution. *)
DebuggerFirstRun(s, res, updateRun, errUpdate) ==
    IF res.passed THEN
        LET s2 == AddLog(s, <<"All tests passed successfully">>)
        IN  IF updateRun.ok
            THEN StepResult(s2, "documentation_generator", <<>>, "DONE", <<Call("run_tests")>>)
            ELSE DebuggerFail(s2, updateRun.e, errUpdate, <<Call("run_tests")>>)
    ELSE StepResult(AddLog(s, <<"Found test failures, attempting fixes">>),
                    "running", <<>>, "REPAIRING", <<Call("run_tests")>>)

(* The except block of fix_test_failures: reports, then re-raises wrapped. *)
FixFail(s, e, errRun, errUpdate, cs) ==
    DebuggerFail(s, IF errRun.ok THEN <<"Error during debugging: ">> \o e ELSE errRun.e,
                 errUpdate, cs)

(* Lines 81-90: fix_test_failures is entered. *)
FixEnter(s, createRun, errRun, errUpdate) ==
    IF createRun.ok THEN StepResult(s, "running", <<>>, "FIXING", <<Call("fix_test_failures")>>)
    ELSE FixFail(s, createRun.e, errRun, errUpdate, <<Call("fix_test_failures")>>)

(* Lines 112-115: the pass is over, its telemetry run is closed. *)
FixLeave(s, updateRun, errRun, errUpdate) ==
    IF updateRun.ok THEN StepResult(s, "running", <<>>, "RE-RUN", <<>>)
    ELSE FixFail(s, updateRun.e, errRun, errUpdate, <<>>)


(* Mutant: a failing re-run starts another repair pass. *)
DebuggerReRunRetry(s, res, updateRun, errUpdate) ==
    IF res.passed THEN
        LET s2 == AddLog(s, <<"Successfully fixed all test failures">>)
        IN  IF updateRun.ok
            THEN StepResult(s2, "documentation_generator", <<>>, "DONE", <<Call("run_tests")>>)
            ELSE DebuggerFail(s2, updateRun.e, errUpdate, <<Call("run_tests")>>)
    ELSE StepResult(s, "running", <<>>, "REPAIRING", <<Call("run_tests")>>)

(* Lines 147-156: the second test execution. *)
DebuggerReRunResult(s, res, updateRun, errUpdate) ==
    IF res.passed THEN
        LET s2 == AddLog(s, <<"Successfully fixed all test failures">>)
        IN  IF updateRun.ok
            THEN StepResult(s2, "documentation_generator", <<>>, "DONE", <<Call("run_tests")>>)
            ELSE DebuggerFail(s2, updateRun.e, errUpdate, <<Call("run_tests")>>)
    ELSE DebuggerFail(s, <<"Unable to fix all test failures">>, errUpdate,
                      <<Call("run_tests")>>)

-----------------------------------------------------------------------------
(* The graph engine: one stage invocation and the routing that follows it *)

Lens(s) == [logs |-> Len(s.logs), errors |-> Len(s.errors)]

(* Stage n, entered with list lengths e0, ended with result r. *)
Finish(n, r, e0) ==
    /\ state' = r.state
    /\ calls' = calls \o r.calls
    /\ returns' = Append(returns,
          [node |-> n, id |-> r.id,
           dlogs |-> Len(r.state.logs) - e0.logs,
           derrs |-> Len(r.state.errors) - e0.errors,
           errors |-> Len(r.state.errors),
           loglist |-> r.state.logs,
           errlist |-> r.state.errors])
    /\ IF r.id = "raised"
       THEN current' = "raised" /\ exc' = r.exc
       ELSE current' = SelectEdge(n, r.id) /\ exc' = exc

(* create_workflow constructs the five nodes (their clients may raise) and *)
(* the graph; the run then starts at the entry point.                      *)
CreateWorkflow ==
    /\ current = "create_workflow"
    /\ \E c \in CallOutcomes :
          IF c.ok THEN current' = EntryPoint /\ exc' = exc
          ELSE current' = "raised" /\ exc' = c.e
    /\ UNCHANGED <<response, state, output, history, returns, entry, calls, dpc,
                   test_output, queue, files>>

ProjectInitializer ==
    /\ current = "project_initializer"
    /\ history' = Append(history, "project_initializer")
    /\ entry' = Lens(state)
    /\ \E fs \in CallOutcomes, db \in ProcOutcomes, venv \in ProcOutcomes, m \in Msgs :
          Finish("project_initializer", ProjectInitializerRun(state, fs, db, venv, m),
                 Lens(state))
    /\ UNCHANGED <<response, output, dpc, test_output, queue, files>>

SRSParser ==
    /\ current = "srs_parser"
    /\ history' = Append(history, "srs_parser")
    /\ entry' = Lens(state)
    /\ \E createRun \in CallOutcomes, reader \in CallOutcomes, doc \in Documents,
          updateRun \in CallOutcomes, errUpdate \in CallOutcomes :
          Finish("srs_parser",
                 SRSParserRun(state, createRun, reader, doc, updateRun, errUpdate),
                 Lens(state))
    /\ UNCHANGED <<response, output, dpc, test_output, queue, files>>

TestGenerator ==
    /\ current = "test_generator"
    /\ history' = Append(history, "test_generator")
    /\ entry' = Lens(state)
    /\ \E tel \in Telemetry, dirs \in CallOutcomes, kind \in FailKinds, m \in Msgs,
          k \in 0..Len(TestGeneratorTargets(state.requirements)) :
          LET r == TestGeneratorRun(state, files, tel, dirs, k, kind, m)
          IN  Finish("test_generator", r, Lens(state)) /\ files' = r.files
    /\ UNCHANGED <<response, output, dpc, test_output, queue>>

CodeGenerator ==
    /\ current = "code_generator"
    /\ history' = Append(history, "code_generator")
    /\ entry' = Lens(state)
    /\ \E tel \in Telemetry, dirs \in CallOutcomes, kind \in FailKinds, m \in Msgs,
          k \in 0..Len(CodeGeneratorTargets(state.requirements)) :
          LET r == CodeGeneratorRun(state, files, tel, dirs, k, kind, m)
          IN  Finish("code_generator", r, Lens(state)) /\ files' = r.files
    /\ UNCHANGED <<response, output, dpc, test_output, queue>>

(* One step of DebuggerNode.run. *)
Step(r) ==
    /\ dpc' = r.dpc
    /\ IF r.id = "running"
       THEN /\ state' = r.state
            /\ calls' = calls \o r.calls
            /\ UNCHANGED <<current, exc, returns>>
       ELSE Finish("debugger", r, entry)

DebuggerBegin ==
    /\ current = "debugger" /\ dpc = "idle"
    /\ history' = Append(history, "debugger")
    /\ entry' = Lens(state)
    /\ \E createRun \in CallOutcomes :
          LET r == DebuggerEnter(state, createRun)
          IN  /\ dpc' = r.dpc
              /\ IF r.id = "running"
                 THEN UNCHANGED <<state, calls, current, exc, returns>>
                 ELSE Finish("debugger", r, Lens(state))
    /\ UNCHANGED <<response, output, test_output, queue, files>>

DebuggerRunTests ==
    /\ current = "debugger" /\ dpc = "RUN"
    /\ \E res \in run_tests_results, updateRun \in CallOutcomes, errUpdate \in CallOutcomes :
          /\ Step(DebuggerFirstRun(state, res, updateRun, errUpdate))
          /\ test_output' = res.output
    /\ UNCHANGED <<response, output, history, entry, queue, files>>

DebuggerFixBegin ==
    /\ current = "debugger" /\ dpc = "REPAIRING"
    /\ \E createRun \in CallOutcomes, errRun \in CallOutcomes, errUpdate \in CallOutcomes :
          Step(FixEnter(state, createRun, errRun, errUpdate))
    /\ queue' = _extract_failing_files(test_output)
    /\ UNCHANGED <<response, output, history, entry, test_output, files>>

(* Lines 91-110: one iteration of the loop over the failing files. A file *)
(* that is not on disk cannot be read.                                    *)
DebuggerFixFile ==
    /\ current = "debugger" /\ dpc = "FIXING" /\ queue # <<>>
    /\ LET f == Head(queue) IN
       \E kind \in {"ok", "read", "llm", "write", "telemetry"}, m \in Msgs,
          errRun \in CallOutcomes, errUpdate \in CallOutcomes :
          /\ (f \notin DOMAIN files) => kind = "read"
          /\ LET cs == <<CallOn("read", f)>>
                       \o (IF kind # "read" THEN <<CallOn("llm", f)>> ELSE <<>>)
                       \o (IF kind \in {"ok", "telemetry"}
                           THEN <<CallOn("write", f)>> ELSE <<>>)
             IN  /\ files' = IF kind \in {"ok", "telemetry"}
                             THEN Write(files, f, <<"fixed">>) ELSE files
                 /\ IF kind = "ok"
                    THEN Step(StepResult(state, "running", <<>>, "FIXING", cs))
                    ELSE Step(FixFail(state, <<m>>, errRun, errUpdate, cs))
    /\ queue' = Tail(queue)
    /\ UNCHANGED <<response, output, history, entry, test_output>>

DebuggerFixEnd ==
    /\ current = "debugger" /\ dpc = "FIXING" /\ queue = <<>>
    /\ \E updateRun \in CallOutcomes, errRun \in CallOutcomes, errUpdate \in CallOutcomes :
          Step(FixLeave(state, updateRun, errRun, errUpdate))
    /\ UNCHANGED <<response, output, history, entry, test_output, queue, files>>

DebuggerReRun ==
    /\ current = "debugger" /\ dpc = "RE-RUN"
    /\ \E res \in run_tests_results, updateRun \in CallOutcomes, errUpdate \in CallOutcomes :
          /\ Step(DebuggerReRunResult(state, res, updateRun, errUpdate))
          /\ test_output' = res.output
    /\ UNCHANGED <<response, output, history, entry, queue, files>>

(* Mutant: the sink clears the lists it has printed. *)
error_handler_clearing(s) == [s EXCEPT !.logs = <<>>, !.errors = <<>>]

(* error_handler prints the errors and returns (state, "error"). *)
error_handler(s) == s

ErrorHandler ==
    /\ current = "error_handler"
    /\ history' = Append(history, "error_handler")
    /\ state' = error_handler(state)
    /\ output' = "error"
    /\ current' = SelectEdge("error_handler", "error")
    /\ UNCHANGED <<response, exc, returns, entry, calls, dpc, test_output, queue, files>>

(* Mutant: the completion node appends nothing. *)
complete_handler_silent(s) == s

complete_handler(s) == AddLog(s, <<"Workflow completed successfully">>)

Complete ==
    /\ current = "complete"
    /\ history' = Append(history, "complete")
    /\ state' = complete_handler(state)
    /\ current' = SelectEdge("complete", "none")
    /\ UNCHANGED <<response, exc, output, returns, entry, calls, dpc, test_output, queue, files>>

(* run_workflow returns what the graph returned. *)
RunWorkflowReturn ==
    /\ current = "END"
    /\ current' = "returned"
    /\ UNCHANGED <<response, state, exc, output, history, returns, entry, calls, dpc,
                   test_output, queue, files>>

(* Mutant: the failure dict drops the exception's message. *)
WorkflowFailedQuietly(path, e) ==
    [srs_path |-> path, errors |-> <<>>, logs |-> << <<"Workflow failed: ">> >>]

(* Lines 102-108: any exception is turned into a fresh dict. *)
WorkflowFailed(path, e) ==
    [srs_path |-> path, errors |-> <<e>>, logs |-> << <<"Workflow failed: ">> \o e >>]

RunWorkflowExcept ==
    /\ current = "raised"
    /\ current' = "returned"
    /\ state' = WorkflowFailed(state.srs_path, exc)
    /\ UNCHANGED <<response, exc, output, history, returns, entry, calls, dpc,
                   test_output, queue, files>>

Next ==
    \/ CreateWorkflow
    \/ ProjectInitializer
    \/ SRSParser
    \/ TestGenerator
    \/ CodeGenerator
    \/ DebuggerBegin
    \/ DebuggerRunTests
    \/ DebuggerFixBegin
    \/ DebuggerFixFile
    \/ DebuggerFixEnd
    \/ DebuggerReRun
    \/ ErrorHandler
    \/ Complete
    \/ RunWorkflowReturn
    \/ RunWorkflowExcept

Spec == Init /\ [][Next]_vars

(* Every external call returns or raises in the end, so a run that can *)
(* take a step takes one.                                              *)
FairSpec == Spec /\ WF_vars(Next)

-----------------------------------------------------------------------------
(* srs_parser(state): the module-level extraction function of srs_parser.py *)
(* and its analyzer analyze_requirements. Texts are sequences of tokens:    *)
(* the JSON punctuation, JSON strings (named by their content) and bare     *)
(* words, which are no JSON.                                                *)

required_keys ==
    <<"functional_requirements", "api_endpoints", "db_schema", "auth_requirements">>

(* The JSON strings that occur in responses. *)
Strings ==
    {"functional_requirements", "api_endpoints", "db_schema", "auth_requirements",
     "tables", "type", "features", "extra", "F1", "F2", "/api/users", "users",
     "JWT", "Unknown", "login", "Failed to parse requirements"}

(* json.loads, the scanner: the index after the value that starts at t[i],  *)
(* or 0 when no JSON value starts there.                                    *)
RECURSIVE ValueEnd(_, _), MembersEnd(_, _), ItemsEnd(_, _)
ValueEnd(t, i) ==
    IF i > Len(t) THEN 0
    ELSE IF t[i] \in Strings THEN i + 1
    ELSE IF t[i] = "{" THEN
        IF i < Len(t) /\ t[i + 1] = "}" THEN i + 2 ELSE MembersEnd(t, i + 1)
    ELSE IF t[i] = "[" THEN
        IF i < Len(t) /\ t[i + 1] = "]" THEN i + 2 ELSE ItemsEnd(t, i + 1)
    ELSE 0

(* The members of an object from t[i] on, up to and including its "}". *)
MembersEnd(t, i) ==
    IF i + 1 > Len(t) \/ t[i] \notin Strings \/ t[i + 1] # ":" THEN 0
    ELSE LET j == ValueEnd(t, i + 2) IN
         IF j = 0 \/ j > Len(t) THEN 0
         ELSE IF t[j] = "}" THEN j + 1
         ELSE IF t[j] = "," THEN MembersEnd(t, j + 1)
         ELSE 0

(* The items of an array from t[i] on, up to and including its "]". *)
ItemsEnd(t, i) ==
    LET j == ValueEnd(t, i) IN
    IF j = 0 \/ j > Len(t) THEN 0
    ELSE IF t[j] = "]" THEN j + 1
    ELSE IF t[j] = "," THEN ItemsEnd(t, j + 1)
    ELSE 0

(* A decoded JSON value. A dict is its key set and, per key, the tokens of  *)
(* the value (<<>> for a key it does not have); ok = FALSE stands for       *)
(* JSONDecodeError.                                                         *)
Json(ok, dict, keys, val) == [ok |-> ok, dict |-> dict, keys |-> keys, val |-> val]
NoVal == [k \in Strings |-> <<>>]
JSONDecodeError == Json(FALSE, FALSE, {}, NoVal)
NotADict == Json(TRUE, FALSE, {}, NoVal)

(* The dict of a well-formed object whose members start at t[i]; a key     *)
(* that occurs twice keeps its last value.                                  *)
RECURSIVE Members(_, _, _)
Members(t, i, acc) ==
    LET j == ValueEnd(t, i + 2)
        acc2 == Json(TRUE, TRUE, acc.keys \cup {t[i]},
                     [acc.val EXCEPT ![t[i]] = SubSeq(t, i + 2, j - 1)])
    IN  IF t[j] = "}" THEN acc2 ELSE Members(t, j + 1, acc2)

json_loads(t) ==
    IF ValueEnd(t, 1) # Len(t) + 1 THEN JSONDecodeError
    ELSE IF t[1] # "{" THEN NotADict
    ELSE IF t[2] = "}" THEN Json(TRUE, TRUE, {}, NoVal)
    ELSE Members(t, 2, Json(TRUE, TRUE, {}, NoVal))

(* Mutant: the search for the opening brace runs from the right. *)
find_last(t, c) ==
    IF \E i \in 1..Len(t) : t[i] = c
    THEN (CHOOSE i \in 1..Len(t) : t[i] = c /\ \A j \in (i + 1)..Len(t) : t[j] # c) - 1
    ELSE -1

(* str.find and str.rfind, with Python's 0-based result and -1 for none. *)
find(t, c) ==
    IF \E i \in 1..Len(t) : t[i] = c
    THEN (CHOOSE i \in 1..Len(t) : t[i] = c /\ \A j \in 1..(i - 1) : t[j] # c) - 1
    ELSE -1

rfind(t, c) ==
    IF \E i \in 1..Len(t) : t[i] = c
    THEN (CHOOSE i \in 1..Len(t) : t[i] = c /\ \A j \in (i + 1)..Len(t) : t[j] # c) - 1
    ELSE -1

(* raw_response[json_start:json_end] *)
Slice(t, start, end) == SubSeq(t, start + 1, end)

EmptyList == <<"[", "]">>
NoTables == <<"{", "tables", ":", "[", "]", "}">>
UnknownAuth == <<"{", "type", ":", "Unknown", ",", "features", ":", "[", "]", "}">>

(* Lines 87-92: the structure returned when decoding fails. *)
Fallback ==
    Json(TRUE, TRUE, {required_keys[i] : i \in 1..4},
         [NoVal EXCEPT !["functional_requirements"] =
                            <<"[", "Failed to parse requirements", "]">>,
                       !["api_endpoints"] = EmptyList,
                       !["db_schema"] = NoTables,
                       !["auth_requirements"] = UnknownAuth])

(* Lines 75-84: what is handed to json.loads. *)
json_content(raw_response) ==
    LET json_start == find(raw_response, "{")
        json_end == rfind(raw_response, "}") + 1
    IN  IF json_start >= 0 /\ json_end > json_start
        THEN Slice(raw_response, json_start, json_end)
        ELSE raw_response

(* Lines 72-92: the analyzer, from the raw completion text on. *)
analyze_requirements(raw_response) ==
    LET d == json_loads(json_content(raw_response))
    IN  IF d.ok THEN d ELSE Fallback

(* Mutant: every missing key defaults to the empty list. *)
DefaultValueList(key) == EmptyList

(* Lines 114-121: the default of a required key. *)
DefaultValue(key) ==
    CASE key = "functional_requirements" -> EmptyList
      [] key = "api_endpoints" -> EmptyList
      [] key = "db_schema" -> NoTables
      [] key = "auth_requirements" -> UnknownAuth

(* Line 109 *)
missing_keys(requirements) ==
    SelectSeq(required_keys, LAMBDA key : key \notin requirements.keys)

(* Lines 111-121 *)
RECURSIVE Backfill(_, _)
Backfill(requirements, missing) ==
    IF missing = <<>> THEN requirements
    ELSE LET key == Head(missing) IN
         Backfill(Json(TRUE, TRUE, requirements.keys \cup {key},
                       [requirements.val EXCEPT ![key] = DefaultValue(key)]),
                  Tail(missing))

(* sep.join(parts) *)
RECURSIVE Join(_, _)
Join(parts, sep) ==
    IF Len(parts) <= 1 THEN parts
    ELSE <<Head(parts), sep>> \o Join(Tail(parts), sep)

(* The State the function is called with: srs_content is the text, as its  *)
(* parts, and no requirements are set.                                      *)
SrsContents == {<<>>, <<"The system shall manage users">>, <<"test", ".docx">>}

Unset == [set |-> FALSE, keys |-> {}, val |-> NoVal]

FunctionStates ==
    {[srs_content |-> c, requirements |-> Unset, logs |-> <<>>, errors |-> <<>>] :
        c \in SrsContents}

(* Mutant: no content counts as empty. *)
NeverEmpty(content) == FALSE

(* Line 97: not state["srs_content"] *)
IsEmpty(content) == content = <<>>

(* Line 100: .endswith(".docx") *)
EndsWithDocx(content) == content # <<>> /\ content[Len(content)] = ".docx"

(* The function returns the State alone: no identifier goes with it. *)
FunctionResult(s, cs, resp) ==
    [state |-> s, id |-> "none", calls |-> cs, response |-> resp]

(* Mutant: the except block only logs. *)
ParserFailLogOnly(s, e, cs, resp) ==
    FunctionResult(AddLog(s, <<"Error in SRS parsing: ">> \o e), cs, resp)

(* Lines 131-134: the except block. *)
ParserFail(s, e, cs, resp) ==
    FunctionResult(AddLog(AddError(s, <<"SRS parsing error: ">> \o e),
                          <<"Error in SRS parsing: ">> \o e), cs, resp)

(* Lines 107-129: validation of what the analyzer returned. Anything but a *)
(* dict fails on the assignment of the first default (TypeError).           *)
Validate(s, requirements, cs, resp) ==
    IF ~requirements.dict
    THEN ParserFail(s, <<"TypeError">>, cs, resp)
    ELSE LET missing == missing_keys(requirements)
             filled == Backfill(requirements, missing)
             s1 == IF missing # <<>>
                   THEN AddLog(s, <<"Warning: Added missing keys in requirements: ">>
                                  \o Join(missing, ", "))
                   ELSE s
             s2 == [s1 EXCEPT !.requirements =
                        [set |-> TRUE, keys |-> filled.keys, val |-> filled.val]]
         IN  FunctionResult(AddLog(s2, <<"Successfully parsed SRS document">>), cs, resp)

(* The values the embedded objects give to their keys; none is a default. *)
SampleValue(key) ==
    CASE key = "functional_requirements" -> <<"[", "F1", ",", "F2", "]">>
      [] key = "api_endpoints" -> <<"[", "/api/users", "]">>
      [] key = "db_schema" -> <<"{", "tables", ":", "[", "users", "]", "}">>
      [] key = "auth_requirements" ->
            <<"{", "type", ":", "JWT", ",", "features", ":", "[", "login", "]", "}">>
      [] key = "extra" -> <<"F2">>

(* json.dumps of an object with the given keys, in the given order. *)
Serialise(keys) ==
    LET member(i) == <<keys[i], ":">> \o SampleValue(keys[i])
        RECURSIVE body(_)
        body(i) == IF i > Len(keys) THEN <<>>
                   ELSE IF i = Len(keys) THEN member(i)
                   ELSE member(i) \o <<",">> \o body(i + 1)
    IN  <<"{">> \o body(1) \o <<"}">>

(* The key orders of the objects a response can embed: every subset of the *)
(* required keys, the full set reversed, and objects with one more key.     *)
EmbeddedKeys ==
    {SelectSeq(required_keys, LAMBDA k : k \in K) : K \in SUBSET {required_keys[i] : i \in 1..4}}
    \cup {<<"auth_requirements", "db_schema", "api_endpoints", "functional_requirements">>,
          required_keys \o <<"extra">>,
          <<"extra">>}

(* Text before and after the embedded object. *)
Prefixes ==
    {<<>>, <<"Sure">>, <<"}", "Sure">>, <<"Sure", "{", "see", "}", "below">>,
     <<"{", "extra", ":">>}
Suffixes == {<<>>, <<"Done">>, <<"{", "Done">>, <<"}">>, <<"Done", "}">>}

(* Responses that embed no object. *)
PlainResponses ==
    {<<>>, <<"Sorry">>, <<"}", "Sorry", "{">>, <<"[", "F1", "]">>, <<"F1">>}

Responses ==
    {p \o Serialise(k) \o x : p \in Prefixes, k \in EmbeddedKeys, x \in Suffixes}
    \cup PlainResponses

(* Lines 13-18 and 62-72: get_groq_client raises without an API key, the   *)
(* completion request raises, or it returns a text.                        *)
Completion(status, text, e) == [status |-> status, text |-> text, e |-> e]

Completions ==
    {Completion("no_client", <<>>, <<"GROQ_API_KEY environment variable must be set">>)}
    \cup {Completion("raised", <<>>, <<m>>) : m \in Msgs}
    \cup {Completion("returned", r, <<>>) : r \in Responses}

Responded(c) == [status |-> c.status, text |-> c.text]

(* Lines 94-134 *)
srs_parser(s, docx, llm) ==
    IF IsEmpty(s.srs_content)
    THEN ParserFail(s, <<"Empty SRS content">>, <<>>, NoResponse)
    ELSE IF EndsWithDocx(s.srs_content) /\ ~docx.ok
    THEN ParserFail(s, docx.e, <<Call("process_docx")>>, NoResponse)
    ELSE LET cs == IF EndsWithDocx(s.srs_content) THEN <<Call("process_docx")>> ELSE <<>>
         IN  CASE llm.status = "no_client" -> ParserFail(s, llm.e, cs, NoResponse)
               [] llm.status = "raised" ->
                     ParserFail(s, llm.e, cs \o <<Call("llm")>>, Responded(llm))
               [] llm.status = "returned" ->
                     Validate(s, analyze_requirements(llm.text),
                              cs \o <<Call("llm")>>, Responded(llm))

(* A caller awaits srs_parser(state) on a State of its own. *)
InitFunction ==
    /\ current = "srs_parser()"
    /\ state \in FunctionStates
    /\ exc = <<>>
    /\ output = "none"
    /\ history = <<>>
    /\ returns = <<>>
    /\ entry = [logs |-> 0, errors |-> 0]
    /\ calls = <<>>
    /\ dpc = "idle"
    /\ test_output = <<>>
    /\ queue = <<>>
    /\ files = [p \in {} |-> "x"]
    /\ response = NoResponse

SrsParserCall ==
    /\ current = "srs_parser()"
    /\ \E docx \in CallOutcomes, llm \in Completions :
          LET r == srs_parser(state, docx, llm)
          IN  /\ state' = r.state
              /\ output' = r.id
              /\ calls' = calls \o r.calls
              /\ response' = r.response
    /\ current' = "srs_parser() returned"
    /\ UNCHANGED <<exc, history, returns, entry, dpc, test_output, queue, files>>

NextFunction == SrsParserCall

SpecFunction == InitFunction /\ [][NextFunction]_vars

-----------------------------------------------------------------------------
(* create_project_structure on a file system: a map from paths to nodes,   *)
(* where a node is a directory or the content of a regular file. The       *)
(* pipeline above tracks the generated files only; here the layout is      *)
(* created on a disk that may already hold part of it.                     *)

(* How often the layout is created in a row. *)
MaxLayoutRuns == 2

Directory == <<"<directory>">>

IsDir(fs, d) == Path(d, <<>>) \in DOMAIN fs /\ fs[Path(d, <<>>)] = Directory

(* os.path.dirname *)
Parent(d) ==
    CASE d = "generated_api" -> ""
      [] d = "generated_api/app" -> "generated_api"
      [] d = "generated_api/app/api" -> "generated_api/app"
      [] d = "generated_api/app/models" -> "generated_api/app"
      [] d = "generated_api/app/services" -> "generated_api/app"
      [] d = "generated_api/app/api/routes" -> "generated_api/app/api"

FsResult(ok, e, fs) == [ok |-> ok, e |-> e, fs |-> fs]

(* Mutant: a directory that is already there is an error. *)
makedirs_exclusive(fs, d) ==
    IF d = "" THEN FsResult(TRUE, <<>>, fs)
    ELSE IF IsDir(fs, d) THEN FsResult(FALSE, <<"FileExistsError">>, fs)
    ELSE FsResult(TRUE, <<>>, Write(fs, Path(d, <<>>), Directory))

(* os.makedirs(d, exist_ok=True): missing ancestors first, then d itself; *)
(* a directory that is there is left as it is.                            *)
RECURSIVE makedirs(_, _)
makedirs(fs, d) ==
    IF d = "" \/ IsDir(fs, d) THEN FsResult(TRUE, <<>>, fs)
    ELSE FsResult(TRUE, <<>>, Write(makedirs(fs, Parent(d)).fs, Path(d, <<>>), Directory))

(* The list dirs of lines 15-22. *)
LayoutDirs ==
    <<"generated_api", "generated_api/app", "generated_api/app/api",
      "generated_api/app/models", "generated_api/app/services",
      "generated_api/app/api/routes">>

main_py_content ==
    <<"from fastapi import FastAPI", "app = FastAPI()", "@app.get(\"/\")",
      "async def root():", "return {\"message\": \"Hello World\"}">>

requirements_content == <<"fastapi>=0.109.0", "uvicorn[standard]>=0.27.0">>

(* The two files of lines 38-46. *)
LayoutFiles ==
    <<[path |-> Path("generated_api/app", <<"main.py">>), content |-> main_py_content],
      [path |-> Path("generated_api", <<"requirements.txt">>),
       content |-> requirements_content]>>

LayoutOps == Len(LayoutDirs) + Len(LayoutFiles)

(* The operations of the try block from the k-th on. fail = 0: the system *)
(* refuses nothing; otherwise the fail-th operation raises an OSError     *)
(* with message m, after truncating the file when open() had succeeded.   *)
RECURSIVE LayoutSteps(_, _, _, _, _)
LayoutSteps(fs, k, fail, truncated, m) ==
    IF k > LayoutOps THEN FsResult(TRUE, <<>>, fs)
    ELSE IF k = fail THEN
        FsResult(FALSE, <<m>>,
                 IF k > Len(LayoutDirs) /\ truncated
                 THEN Write(fs, LayoutFiles[k - Len(LayoutDirs)].path, <<>>) ELSE fs)
    ELSE IF k <= Len(LayoutDirs) THEN
        LET r == makedirs(fs, LayoutDirs[k])
        IN  IF r.ok THEN LayoutSteps(r.fs, k + 1, fail, truncated, m) ELSE r
    ELSE LET f == LayoutFiles[k - Len(LayoutDirs)]
         IN  LayoutSteps(Write(fs, f.path, f.content), k + 1, fail, truncated, m)

(* create_project_structure: any exception is re-raised wrapped. *)
CreateProjectStructure(fs, fail, truncated, m) ==
    LET r == LayoutSteps(fs, 1, fail, truncated, m)
    IN  IF r.ok THEN r
        ELSE FsResult(FALSE, <<"Error creating project structure: ">> \o r.e, r.fs)

(* Sets of layout directories a disk can hold: with each its parent. *)
ClosedDirSets ==
    {D \in SUBSET {LayoutDirs[i] : i \in 1..Len(LayoutDirs)} :
        \A d \in D : Parent(d) = "" \/ Parent(d) \in D}

(* What is at the place of a layout file before the call. *)
FileKinds == {"absent", "old", "same"}

FileSystem(D, F) ==
    [p \in {Path(d, <<>>) : d \in D}
           \cup {LayoutFiles[i].path : i \in {j \in 1..Len(LayoutFiles) : F[j] # "absent"}} |->
        IF p.file = <<>> THEN Directory
        ELSE LET i == CHOOSE j \in 1..Len(LayoutFiles) : LayoutFiles[j].path = p
             IN  IF F[i] = "old" THEN <<"old">> ELSE LayoutFiles[i].content]

(* The disks the layout is created on: none, part or all of it is there. *)
FileSystems ==
    {FileSystem(D, F) : <<D, F>> \in
        {x \in ClosedDirSets \X [1..Len(LayoutFiles) -> FileKinds] :
            \A i \in 1..Len(LayoutFiles) :
                x[2][i] # "absent" => LayoutFiles[i].path.dir \in x[1]}}

InitLayout ==
    /\ current = "create_project_structure()"
    /\ state = initial_state("test.docx")
    /\ exc = <<>>
    /\ output = "none"
    /\ history = <<>>
    /\ returns = <<>>
    /\ entry = [logs |-> 0, errors |-> 0]
    /\ calls = <<>>
    /\ dpc = "idle"
    /\ test_output = <<>>
    /\ queue = <<>>
    /\ files \in FileSystems
    /\ response = NoResponse

(* One call of create_project_structure(requirements) on the disk as the  *)
(* call before it left it.                                                *)
CreateProjectStructureCall ==
    /\ current = "create_project_structure()"
    /\ Len(returns) < MaxLayoutRuns
    /\ \E fail \in 0..LayoutOps, truncated \in BOOLEAN, m \in Msgs :
          LET r == CreateProjectStructure(files, fail, truncated, m)
          IN  /\ files' = r.fs
              /\ exc' = r.e
              /\ returns' = Append(returns,
                    [node |-> "create_project_structure",
                     id |-> IF r.ok THEN "none" ELSE "raised",
                     fail |-> fail, before |-> files, after |-> r.fs])
    /\ calls' = Append(calls, Call("create_project_structure"))
    /\ UNCHANGED <<response, current, state, output, history, entry, dpc,
                   test_output, queue>>

NextLayout == CreateProjectStructureCall

SpecLayout == InitLayout /\ [][NextLayout]_vars

-----------------------------------------------------------------------------
(* Test-Suite Generation and Code Generation run again on the requirements *)
(* and the disk of the run before: the per-item loops of the generators,   *)
(* with an LLM that need not answer twice with the same text.              *)

(* How often a stage is run in a row. *)
MaxStageRuns == 2

(* What tells one answer of the LLM for a target from another. *)
Texts == {"v1", "v2"}

Answer(target, v) == Response(target) \o <<v>>

(* Mutant: the files are opened for appending. *)
RECURSIVE AppendAnswers(_, _, _, _)
AppendAnswers(fs, targets, n, v) ==
    IF n = 0 THEN fs
    ELSE LET fs1 == AppendAnswers(fs, targets, n - 1, v)
             p == targets[n].path
         IN  Write(fs1, p, (IF p \in DOMAIN fs1 THEN fs1[p] ELSE <<>>)
                           \o Answer(targets[n], v))

(* with open(file, "w") as f: f.write(response.content), target by target. *)
RECURSIVE WriteAnswers(_, _, _, _)
WriteAnswers(fs, targets, n, v) ==
    IF n = 0 THEN fs
    ELSE Write(WriteAnswers(fs, targets, n - 1, v), targets[n].path, Answer(targets[n], v))

GeneratorStages == {"test_generator", "code_generator"}

StageTargets(stage, req) ==
    IF stage = "test_generator" THEN TestGeneratorTargets(req)
    ELSE CodeGeneratorTargets(req)

(* The generators of a stage over req on disk fs: k = 0 is no failure,   *)
(* otherwise the k-th target fails as kind says.                         *)
Generate(stage, req, fs, k, kind, v) ==
    LET targets == StageTargets(stage, req)
        n == Written(Len(targets), k, kind)
    IN  [ok |-> k = 0, written |-> n, fs |-> WriteAnswers(fs, targets, n, v)]

(* The requirements extraction hands on. *)
ExtractedRequirements ==
    {extract_requirements(Ok, doc).requirements : doc \in {d \in Documents : ~d.expiry}}

InitRegenerate ==
    /\ current \in GeneratorStages
    /\ \E req \in ExtractedRequirements :
          state = [initial_state("test.docx") EXCEPT !.requirements = req]
    /\ exc = <<>>
    /\ output = "none"
    /\ history = <<>>
    /\ returns = <<>>
    /\ entry = [logs |-> 0, errors |-> 0]
    /\ calls = <<>>
    /\ dpc = "idle"
    /\ test_output = <<>>
    /\ queue = <<>>
    /\ files = [p \in {} |-> "x"]
    /\ response = NoResponse

(* One run of the generators of stage. *)
Regenerate(stage) ==
    /\ current = stage
    /\ Len(returns) < MaxStageRuns
    /\ \E v \in Texts, kind \in FailKinds,
          k \in 0..Len(StageTargets(stage, state.requirements)) :
          LET r == Generate(stage, state.requirements, files, k, kind, v)
          IN  /\ files' = r.fs
              /\ returns' = Append(returns,
                    [node |-> stage, id |-> IF r.ok THEN "ok" ELSE "failed",
                     written |-> r.written, version |-> v])
    /\ history' = Append(history, stage)
    /\ UNCHANGED <<response, current, state, exc, output, entry, calls, dpc,
                   test_output, queue>>

NextRegenerate == \E stage \in GeneratorStages : Regenerate(stage)

SpecRegenerate == InitRegenerate /\ [][NextRegenerate]_vars

-----------------------------------------------------------------------------
(* Properties *)

StageHistory == SelectSeq(history, LAMBDA n : n \in Stages)

(* The node executed after the i-th invocation, or the one about to be. *)
NextAfter(i) == IF Len(history) > i THEN history[i + 1] ELSE current

Returned(i) == returns[i].id # "raised"

CountOp(op) == Cardinality({i \in 1..Len(calls) : calls[i].op = op})

SpecOrder == <<"srs_parser", "project_initializer", "test_generator",
               "code_generator", "debugger">>

GraphOrder == <<"project_initializer", "srs_parser", "test_generator",
                "code_generator", "debugger">>

C3_SinkShortCircuit ==
    \A i \in 1..Len(returns) :
        returns[i].id = "error_handler" =>
            /\ NextAfter(i) = "error_handler"
            /\ Len(history) <= i + 1
            /\ Len(history) = i + 1 => current \in {"END", "returned"}

C3_Witness ==
    /\ current = "returned"
    /\ Len(returns) = 3 /\ returns[3].id = "error_handler"
    /\ history = <<"project_initializer", "srs_parser", "test_generator", "error_handler">>

C5_AppendOnly ==
    [][IsPrefix(state.logs, state'.logs) /\ IsPrefix(state.errors, state'.errors)]_vars

(* C6 as stated: every stage invocation grows exactly one of the two lists, *)
(* by exactly one entry.                                                    *)
C6_ExactlyOneGrows ==
    \A i \in 1..Len(returns) :
        \/ returns[i].dlogs = 1 /\ returns[i].derrs = 0
        \/ returns[i].dlogs = 0 /\ returns[i].derrs = 1

(* C6 amended: an invocation that returns a success identifier leaves the   *)
(* error list unchanged and appends one log entry (two for the debugger     *)
(* after a repair pass); an invocation that returns the sink appends        *)
(* exactly one error entry and also one to three log entries; an invocation *)
(* that raises appends at most one error entry, and a log entry with it.    *)
C6_ListGrowth ==
    \A i \in 1..Len(returns) :
        LET r == returns[i] IN
        CASE r.id = "raised" ->
                /\ r.derrs \in {0, 1}
                /\ r.derrs = 1 => r.dlogs >= 1
          [] r.id = "error_handler" ->
                /\ r.derrs = 1
                /\ r.dlogs \in 1..3
          [] OTHER ->
                /\ r.derrs = 0
                /\ r.dlogs \in {1, 2}
                /\ r.dlogs = 2 => r.node = "debugger"

C6_Witness ==
    /\ Len(returns) = 2
    /\ returns[1].dlogs = 1 /\ returns[1].derrs = 0
    /\ returns[2].id = "error_handler" /\ returns[2].dlogs = 1 /\ returns[2].derrs = 1

(* C7 as stated: every stage invocation returns a (State, identifier) pair, *)
(* whatever its collaborators do: no exception leaves a stage.              *)
C7_NoEscape == \A i \in 1..Len(returns) : Returned(i)

(* C8 as stated: every identifier a stage returns is a declared node name;  *)
(* after an undeclared one the Orchestrator does not go on to a node.       *)
C8_DeclaredIdentifiers ==
    \A i \in 1..Len(returns) :
        Returned(i) =>
            /\ returns[i].id \in Nodes
            /\ returns[i].id \notin Nodes => NextAfter(i) \notin Nodes

(* C9 as stated: when a stage returns the name of a declared node, that     *)
(* node is the one executed next.                                           *)
C9_RoutesToReturned ==
    \A i \in 1..Len(returns) :
        (Returned(i) /\ returns[i].id \in Nodes) => NextAfter(i) = returns[i].id

DebuggerEnded == Len(returns) = 5 /\ returns[5].node = "debugger"

ReRunFailed == CountOp("run_tests") = 2 /\ test_output # ExitCodeOutput("0")

ReRunPassed == CountOp("run_tests") = 2 /\ test_output = ExitCodeOutput("0")

CouldNotFix == <<"Debugging error: ", "Unable to fix all test failures">>

(* C11 as stated: when the test suite fails and fails again on the re-run,  *)
(* the debugger returns the sink and appends one error entry saying the     *)
(* failures could not be fixed; there is no second repair pass and no third *)
(* test execution.                                                          *)
C11_SecondFailureToSink ==
    ReRunFailed =>
        /\ DebuggerEnded
        /\ returns[5].id = "error_handler"
        /\ returns[5].derrs = 1
        /\ current # "returned" => state.errors[Len(state.errors)] = CouldNotFix
        /\ CountOp("fix_test_failures") = 1
        /\ dpc = "FAILED"

(* C12 as stated: when the re-run after the repair pass succeeds, the       *)
(* debugger returns its success identifier, appends no error entry, and the *)
(* log list holds exactly one entry containing "fixed".                     *)
C12_FixedOnReRun ==
    ReRunPassed =>
        /\ DebuggerEnded
        /\ returns[5].id = "documentation_generator"
        /\ returns[5].derrs = 0
        /\ current # "returned" =>
              Count(state.logs, <<"Successfully fixed all test failures">>) = 1

(* Properties of srs_parser(state), stated on SpecFunction *)

FunctionReturned == current = "srs_parser() returned"

(* The words of a message part, letter case kept. *)
Words(part) ==
    CASE part = "Empty SRS content" -> {"Empty", "SRS", "content"}
      [] part = "SRS parsing error: " -> {"SRS", "parsing", "error"}
      [] part = "Error in SRS parsing: " -> {"Error", "in", "SRS", "parsing"}
      [] OTHER -> {part}

Mentions(message, word) == \E i \in 1..Len(message) : word \in Words(message[i])

(* C13 as stated: with an empty source reference the function makes no     *)
(* completion request, leaves the requirements unset, and appends an error *)
(* entry that contains the substring "empty".                              *)
C13_EmptyMentionsLowercase ==
    (FunctionReturned /\ state.srs_content = <<>>) =>
        /\ CountOp("llm") = 0 /\ response = NoResponse
        /\ ~state.requirements.set
        /\ \E i \in 1..Len(state.errors) : Mentions(state.errors[i], "empty")

(* C13 amended: with an empty source reference the function makes no       *)
(* completion request, leaves the requirements unset, and appends the one  *)
(* error entry "SRS parsing error: Empty SRS content" (capital E).         *)
C13_EmptyContentFails ==
    (FunctionReturned /\ state.srs_content = <<>>) =>
        /\ CountOp("llm") = 0 /\ response = NoResponse
        /\ ~state.requirements.set
        /\ state.errors = << <<"SRS parsing error: ", "Empty SRS content">> >>
        /\ Mentions(state.errors[1], "Empty")

C13_Witness ==
    /\ FunctionReturned /\ state.srs_content = <<>>
    /\ Len(state.errors) = 1 /\ calls = <<>>

RequiredKeys == {required_keys[i] : i \in 1..Len(required_keys)}

(* What the analyzer returned for the completion text of this call. *)
Analyzed == analyze_requirements(response.text)

(* The defaults as documented. *)
DocumentedDefault(key) ==
    CASE key = "functional_requirements" -> <<"[", "]">>
      [] key = "api_endpoints" -> <<"[", "]">>
      [] key = "db_schema" -> <<"{", "tables", ":", "[", "]", "}">>
      [] key = "auth_requirements" ->
            <<"{", "type", ":", "Unknown", ",", "features", ":", "[", "]", "}">>

(* The keys of M in the fixed key order, separated by ", ". *)
Listed(M) ==
    LET ks == SelectSeq(required_keys, LAMBDA k : k \in M)
    IN  [i \in 1..(2 * Len(ks) - 1) |->
            IF i % 2 = 1 THEN ks[(i + 1) \div 2] ELSE ", "]

IsWarning(msg) == msg[1] = "Warning: Added missing keys in requirements: "

(* C14: when the analyzer returns an object lacking some of the four keys, *)
(* every missing key is set to its documented default, the keys present    *)
(* keep their values, and exactly one warning log entry is appended, which *)
(* lists the missing keys comma-joined in the fixed key order.             *)
C14_BackfillMissingKeys ==
    (FunctionReturned /\ response.status = "returned" /\ Analyzed.dict
       /\ ~(RequiredKeys \subseteq Analyzed.keys)) =>
        LET missing == RequiredKeys \ Analyzed.keys
            req == state.requirements
        IN  /\ req.set /\ req.keys = Analyzed.keys \cup RequiredKeys
            /\ \A k \in missing : req.val[k] = DocumentedDefault(k)
            /\ \A k \in Strings \ missing : req.val[k] = Analyzed.val[k]
            /\ Cardinality({i \in 1..Len(state.logs) : IsWarning(state.logs[i])}) = 1
            /\ state.logs[1] = <<"Warning: Added missing keys in requirements: ">>
                               \o Listed(missing)
            /\ state.errors = <<>>

C14_Witness ==
    /\ FunctionReturned
    /\ response.text = <<"Sure">> \o Serialise(<<"functional_requirements", "db_schema">>)
    /\ state.logs = << <<"Warning: Added missing keys in requirements: ",
                         "api_endpoints", ", ", "auth_requirements">>,
                       <<"Successfully parsed SRS document">> >>
    /\ state.requirements.val["db_schema"] = SampleValue("db_schema")
    /\ state.requirements.val["auth_requirements"] = DocumentedDefault("auth_requirements")

(* Properties of the pipeline, stated on Spec *)

ExtractionSucceeded ==
    /\ Len(returns) >= 2 /\ returns[2].node = "srs_parser"
    /\ returns[2].id \notin {"raised", "error_handler"}

(* run_workflow has replaced the State by its failure dict. *)
RunFailed == current = "returned" /\ exc # <<>>

DecodeFailed ==
    /\ FunctionReturned /\ response.status = "returned"
    /\ ~json_loads(json_content(response.text)).ok

(* C16 as stated: when the response cannot be decoded, no error is         *)
(* appended, each of the four keys is at its empty default, and a warning  *)
(* log entry names the backfilled keys.                                    *)
C16_UndecodableBackfilled ==
    DecodeFailed =>
        /\ state.errors = <<>>
        /\ state.requirements.set
        /\ \A k \in RequiredKeys : state.requirements.val[k] = DocumentedDefault(k)
        /\ \E i \in 1..Len(state.logs) : IsWarning(state.logs[i])

CompletionRaised ==
    /\ FunctionReturned /\ state.srs_content # <<>>
    /\ response.status = "raised"

(* C17 as stated: for a non-empty source reference, when the completion    *)
(* request raises, the error list has at least one entry afterwards and    *)
(* the identifier returned is the sink.                                    *)
C17_RaiseRoutesToSink ==
    CompletionRaised =>
        /\ Len(state.errors) >= 1
        /\ output = "error_handler"

(* C17 amended: for a non-empty source reference, when the completion      *)
(* request raises, the function appends exactly one error entry, which     *)
(* wraps the exception's message, leaves the requirements unset, and       *)
(* returns the State alone: no identifier is returned with it.             *)
C17_RaiseAppendsError ==
    CompletionRaised =>
        /\ Len(state.errors) = 1
        /\ \E m \in Msgs : state.errors[1] = <<"SRS parsing error: ", m>>
        /\ ~state.requirements.set
        /\ output = "none"

C17_Witness ==
    /\ CompletionRaised
    /\ state.srs_content = <<"test", ".docx">>
    /\ calls = <<Call("process_docx"), Call("llm")>>
    /\ state.errors = << <<"SRS parsing error: ", "boom">> >>

(* The key orders of the embedded objects that have all four keys. *)
FullKeys == {k \in EmbeddedKeys : RequiredKeys \subseteq {k[i] : i \in 1..Len(k)}}

Has(t, c) == \E i \in 1..Len(t) : t[i] = c

(* The requirements of this call equal the object with the keys k. *)
EqualsEmbedded(k) ==
    LET K == {k[i] : i \in 1..Len(k)}
        req == state.requirements
    IN  /\ req.set /\ req.keys = K
        /\ \A key \in Strings :
              req.val[key] = IF key \in K THEN SampleValue(key) ELSE <<>>
        /\ state.logs = << <<"Successfully parsed SRS document">> >>
        /\ state.errors = <<>>

(* C18 as stated: whatever text surrounds one embedded well-formed object  *)
(* with the four keys, the requirements equal that object, lists in their  *)
(* order, and no warning is logged.                                        *)
C18_AnySurroundingText ==
    (FunctionReturned /\ response.status = "returned") =>
        \A p \in Prefixes, k \in FullKeys, x \in Suffixes :
            response.text = p \o Serialise(k) \o x => EqualsEmbedded(k)

(* C18 amended: when the text before the embedded object holds no "{" and  *)
(* the text after it no "}", the requirements equal that object, lists in  *)
(* their order, and no warning is logged.                                  *)
C18_BraceFreeSurroundingText ==
    (FunctionReturned /\ response.status = "returned") =>
        \A p \in Prefixes, k \in FullKeys, x \in Suffixes :
            (response.text = p \o Serialise(k) \o x /\ ~Has(p, "{") /\ ~Has(x, "}"))
                => EqualsEmbedded(k)

C18_Witness ==
    /\ FunctionReturned
    /\ response.text =
          <<"}", "Sure">>
          \o Serialise(<<"auth_requirements", "db_schema", "api_endpoints",
                         "functional_requirements">>)
          \o <<"{", "Done">>
    /\ state.requirements.val["functional_requirements"] = <<"[", "F1", ",", "F2", "]">>
    /\ state.requirements.val["auth_requirements"] = SampleValue("auth_requirements")
    /\ Len(state.logs) = 1

(* Properties of the pipeline, continued (Spec) *)

Activities ==
    <<"create_project_structure", "setup_podman_postgres", "create_virtual_environment">>

(* The text with which each activity wraps its failure. *)
ActivityLabel(i) ==
    CASE i = 1 -> "Error creating project structure: "
      [] i = 2 -> "Error setting up Podman PostgreSQL: "
      [] i = 3 -> "Error creating virtual environment: "

(* The activities Project Initialization has invoked, in order. *)
Invoked ==
    LET cs == SelectSeq(calls, LAMBDA c : \E i \in 1..3 : c.op = Activities[i])
    IN  [i \in 1..Len(cs) |-> cs[i].op]

(* C19 as stated: Project Initialization invokes layout, database and      *)
(* environment bring-up in that order; when one fails, the later ones are  *)
(* not invoked, the stage returns the sink, the error list gains exactly   *)
(* one entry, which names the failing activity, and Test-Suite Generation  *)
(* is never executed.                                                      *)
C19_InitializerActivities ==
    (Len(returns) >= 1 /\ returns[1].node = "project_initializer") =>
        /\ IsPrefix(Invoked, Activities) /\ Invoked # <<>>
        /\ returns[1].id # "error_handler" => Invoked = Activities
        /\ returns[1].id = "error_handler" =>
              /\ returns[1].derrs = 1
              /\ Len(state.errors) = 1
              /\ state.errors[1][1] = "Project initialization error: "
              /\ state.errors[1][2] = ActivityLabel(Len(Invoked))
              /\ Count(history, "test_generator") = 0
              /\ NextAfter(1) = "error_handler"

TestFiles == {p \in DOMAIN files : p.dir \in {TestDir, TestRoutesDir, TestModelsDir}}

GenerationSucceeded ==
    /\ Len(returns) >= 3 /\ returns[3].node = "test_generator"
    /\ returns[3].id = "code_generator"

(* C20 as stated: after a successful Test-Suite Generation over            *)
(* requirements with N endpoints and M model names, exactly N + M + a      *)
(* distinct test files are on disk, one per target, where a is 1 when the  *)
(* requirements hold an auth descriptor and 0 otherwise.                   *)
C20_OneTestFilePerTarget ==
    (GenerationSucceeded /\ ~RunFailed) =>
        Cardinality(TestFiles) =
            Len(state.requirements.endpoints) + Len(state.requirements.models)
            + (IF "auth" \in state.requirements.keys THEN 1 ELSE 0)

(* Test-Suite Generation was the last stage of the run and did not succeed. *)
GenerationFailed ==
    /\ Len(returns) = 3 /\ returns[3].node = "test_generator"
    /\ returns[3].id # "code_generator"
    /\ ~RunFailed

GenerationOps == SelectSeq(calls, LAMBDA c : c.op \in {"llm", "write"})

(* The stage stopped in the LLM call or the file write of a target: the    *)
(* last operation is an LLM call that no write follows.                    *)
FailedAtTarget ==
    /\ GenerationFailed
    /\ GenerationOps # <<>>
    /\ GenerationOps[Len(GenerationOps)].op = "llm"

(* C21 as stated: when Test-Suite Generation fails at its k-th target, the *)
(* files of the targets before k are on disk with their generated content, *)
(* nothing is written for the targets from k on, and the stage returns the *)
(* sink.                                                                   *)
C21_PartialFilesAndSink ==
    FailedAtTarget =>
        LET targets == TestGeneratorTargets(state.requirements)
            k == CountOp("llm")
        IN  /\ \A i \in 1..(k - 1) :
                  /\ targets[i].path \in DOMAIN files
                  /\ files[targets[i].path] = Response(targets[i])
            /\ CountOp("write") = k - 1
            /\ \A i \in 1..(k - 1) : GenerationOps[2 * i].arg = targets[i].path
            /\ returns[3].id = "error_handler"

(* The same without the routing, and for targets whose file no later      *)
(* target before k has replaced.                                           *)
C21_PartialFilesKept ==
    FailedAtTarget =>
        LET targets == TestGeneratorTargets(state.requirements)
            k == CountOp("llm")
        IN  /\ \A i \in 1..(k - 1) :
                  /\ targets[i].path \in DOMAIN files
                  /\ (\A j \in (i + 1)..(k - 1) : targets[j].path # targets[i].path)
                        => files[targets[i].path] = Response(targets[i])
            /\ CountOp("write") = k - 1
            /\ \A i \in 1..(k - 1) : GenerationOps[2 * i].arg = targets[i].path

AllStagesSucceeded == current = "returned" /\ Count(history, "complete") = 1

StageSuccessLogs ==
    << <<"Successfully initialized project structure">>,
       <<"Successfully parsed SRS document and extracted requirements">>,
       <<"Successfully generated test cases">>,
       <<"Successfully generated application code">> >>

SinkReached == Count(history, "error_handler") = 1

(* C24: when a run reaches the sink, the State the run goes on with and    *)
(* returns holds, in order, every log and error entry the stages had       *)
(* appended: the lists each stage returned are prefixes of it, and the     *)
(* lists of the last stage are the lists reported.                         *)
C24_SinkReportsEverything ==
    SinkReached =>
        /\ \A i \in 1..Len(returns) :
              /\ IsPrefix(returns[i].loglist, state.logs)
              /\ IsPrefix(returns[i].errlist, state.errors)
        /\ state.logs = returns[Len(returns)].loglist
        /\ state.errors = returns[Len(returns)].errlist
        /\ state.errors # <<>>

C24_Witness ==
    /\ SinkReached /\ current = "returned"
    /\ Len(returns) = 5
    /\ Len(state.logs) = 6 /\ Len(state.errors) = 1
    /\ state.errors[1] = CouldNotFix

(* C25: the sink leaves the State (requirements, source reference, logs    *)
(* and errors) as it found it, and once it has executed no node executes   *)
(* in the run any more.                                                    *)
C25_SinkObservesOnly ==
    [][/\ current = "error_handler" => state' = state /\ files' = files /\ calls' = calls
       /\ SinkReached => history' = history /\ state' = state]_vars

C25_Witness ==
    /\ current = "returned"
    /\ history = <<"project_initializer", "error_handler">>
    /\ output = "error"
    /\ Len(state.errors) = 1 /\ Len(state.logs) = 1

(* The label with which each stage prefixes its error entry, and the first *)
(* part of the log entry its except block appends.                         *)
ErrorLabel(n) ==
    CASE n = "project_initializer" -> "Project initialization error: "
      [] n = "test_generator" -> "Test generation error: "
      [] n = "code_generator" -> "Code generation error: "
      [] n = "debugger" -> "Debugging error: "

FailureLog(n) ==
    CASE n = "project_initializer" -> "Error initializing project: "
      [] n = "test_generator" -> "Error generating tests: "
      [] n = "code_generator" -> "Error generating code: "
      [] n = "debugger" -> "Error during debugging: "

(* C26 as stated: when Project Initialization, Test-Suite Generation, Code *)
(* Generation or Verification/Repair catches a failure, it appends exactly *)
(* one error entry, prefixed with the stage's label, and one log entry,    *)
(* and returns the sink.                                                   *)
C26_CatchAppendsAndReturnsSink ==
    \A i \in 1..Len(returns) :
        LET r == returns[i] IN
        (r.node \in {"project_initializer", "test_generator", "code_generator", "debugger"}
           /\ r.derrs >= 1) =>
            /\ r.derrs = 1
            /\ r.errlist[Len(r.errlist)][1] = ErrorLabel(r.node)
            /\ r.dlogs >= 1
            /\ r.loglist[Len(r.loglist)][1] = FailureLog(r.node)
            /\ r.id = "error_handler"

FirstRunPassed == CountOp("run_tests") = 1 /\ test_output = ExitCodeOutput("0")

(* C27 as stated: when the first test execution passes, the debugger       *)
(* appends one success log entry and no error, returns its success         *)
(* identifier, and makes no repair call, no LLM call, no file write and no *)
(* second test execution.                                                  *)
C27_PassAtOnce ==
    FirstRunPassed =>
        /\ DebuggerEnded
        /\ returns[5].id = "documentation_generator"
        /\ returns[5].dlogs = 1 /\ returns[5].derrs = 0
        /\ returns[5].loglist[Len(returns[5].loglist)] = <<"All tests passed successfully">>
        /\ CountOp("fix_test_failures") = 0
        /\ calls[Len(calls)].op = "run_tests"
        /\ dpc = "DONE"

(* Positions of the test executions in the call record. *)
RunTestsAt == {i \in 1..Len(calls) : calls[i].op = "run_tests"}

(* The calls after the first test execution, up to the second if any. *)
RepairOps ==
    LET a == Min(RunTestsAt)
        later == RunTestsAt \ {a}
        b == IF later = {} THEN Len(calls) + 1 ELSE Min(later)
    IN  SubSeq(calls, a + 1, b - 1)

(* ops is the start of the pass followed by the read, the prompt and the   *)
(* overwrite of n files, one file after the other.                         *)
RepairsInTurn(ops, n) ==
    /\ Len(ops) = 1 + 3 * n
    /\ ops[1].op = "fix_test_failures"
    /\ \A j \in 1..n :
          LET r == ops[3 * j - 1]
          IN  /\ r.op = "read"
              /\ ops[3 * j] = [r EXCEPT !.op = "llm"]
              /\ ops[3 * j + 1] = [r EXCEPT !.op = "write"]

(* C28: when the repair pass is over and the second test execution is due, *)
(* the calls since the first execution are exactly the repairs of the      *)
(* files named by the failure lines of the first execution's output, in    *)
(* the order of the lines and with no test execution among them; that      *)
(* output is still the one at hand. After the second execution the calls   *)
(* between the two executions are such a sequence of repairs.              *)
C28_OnePassOverFailingFiles ==
    dpc \in {"RE-RUN", "DONE", "FAILED"} =>
        LET ops == RepairOps
            failed == SelectSeq(test_output, LAMBDA l : l.marker)
        IN  /\ dpc = "RE-RUN" =>
                  /\ CountOp("run_tests") = 1
                  /\ RepairsInTurn(ops, Len(failed))
                  /\ \A j \in 1..Len(failed) : ops[3 * j - 1].arg.file = failed[j].name
                  /\ queue = <<>>
            /\ CountOp("run_tests") = 2 => RepairsInTurn(ops, (Len(ops) - 1) \div 3)

C28_Witness ==
    /\ CountOp("run_tests") = 2
    /\ Len(RepairOps) = 7
    /\ RepairOps[2].arg = Path(TestDir, <<"test_auth.py">>)
    /\ RepairOps[5].arg = Path(TestRoutesDir, <<"test_", "users", ".py">>)

RepairedPaths == {RepairOps[i].arg : i \in 2..Len(RepairOps)}

OpsOn(op, path) ==
    Cardinality({i \in 1..Len(RepairOps) : RepairOps[i] = CallOn(op, path)})

(* C29 as stated: in a completed repair pass every distinct failing file   *)
(* is read, submitted to the LLM and overwritten exactly once, also when   *)
(* several failure lines name it.                                          *)
C29_EachFileOnce ==
    dpc = "RE-RUN" =>
        \A p \in RepairedPaths :
            /\ OpsOn("read", p) = 1
            /\ OpsOn("llm", p) = 1
            /\ OpsOn("write", p) = 1

(* The directories of a test file below the test root. *)
DirsBelowTestRoot(p) ==
    CASE p.dir = TestDir -> <<>>
      [] p.dir = TestRoutesDir -> <<"test_routes">>
      [] p.dir = TestModelsDir -> <<"test_models">>

(* C30 as stated: for every test file Test-Suite Generation has written, a *)
(* failure line that names it relative to the test root, with or without   *)
(* the leading "tests/", is normalised to the path the file is at.         *)
C30_FailureLineFindsFile ==
    GenerationSucceeded =>
        \A p \in TestFiles : \A prefix \in {"tests/", ""} :
            _extract_failing_files(
                <<Line(TRUE, prefix, DirsBelowTestRoot(p), p.file)>>) = <<p>>

(* The same for lines without the leading "tests/", and with it for the    *)
(* files directly in the test root.                                        *)
C30_BareOrTopLevel ==
    GenerationSucceeded =>
        \A p \in TestFiles :
            /\ _extract_failing_files(
                  <<Line(TRUE, "", DirsBelowTestRoot(p), p.file)>>) = <<p>>
            /\ p.dir = TestDir =>
                  _extract_failing_files(<<Line(TRUE, "tests/", <<>>, p.file)>>) = <<p>>

(* Properties of the pipeline, concluded (Spec) *)

AppDirs == {AppModelsDir, AppRoutesDir, AppServicesDir}

(* Code Generation has just returned or raised and nothing has run since. *)
CodeGenerationEnded ==
    /\ Len(returns) = 4 /\ returns[4].node = "code_generator"
    /\ Len(history) = 4 /\ current # "returned"

(* The LLM calls and file writes of Code Generation, in the order made. *)
CodeOps == SelectSeq(calls, LAMBDA c : c.op \in {"llm", "write"} /\ c.arg.dir \in AppDirs)

(* C31 as stated: Code Generation works through models, then routes, then  *)
(* services, writing one file per item; when a sub-phase fails nothing     *)
(* later runs, the files written so far stay on disk and the stage routes  *)
(* to the sink; when all succeed it routes to Verification/Repair.         *)
C31_CodeGenerationPhases ==
    CodeGenerationEnded =>
        LET targets == CodeGeneratorTargets(state.requirements)
            ops == CodeOps
            prompts == SelectSeq(ops, LAMBDA c : c.op = "llm")
            writes == SelectSeq(ops, LAMBDA c : c.op = "write")
        IN  /\ Len(prompts) <= Len(targets)
            /\ \A i \in 1..Len(prompts) : prompts[i].arg = targets[i].path
            /\ Len(writes) \in {Len(prompts), Len(prompts) - 1}
            /\ \A i \in 1..Len(writes) :
                  writes[i].arg = targets[i].path /\ targets[i].path \in DOMAIN files
            /\ IF Len(writes) = Len(targets) /\ returns[4].dlogs = 1 /\ returns[4].derrs = 0
               THEN returns[4].id = "debugger" /\ current = "debugger"
               ELSE returns[4].id = "error_handler" /\ current = "error_handler"

(* The same without the routing: the order of the sub-phases, the stop at  *)
(* the first failure and the files that stay.                              *)
C31_PhasesInOrder ==
    CodeGenerationEnded =>
        LET targets == CodeGeneratorTargets(state.requirements)
            ops == CodeOps
            prompts == SelectSeq(ops, LAMBDA c : c.op = "llm")
            writes == SelectSeq(ops, LAMBDA c : c.op = "write")
        IN  /\ Len(prompts) <= Len(targets)
            /\ \A i \in 1..Len(prompts) : prompts[i].arg = targets[i].path
            /\ Len(writes) \in {Len(prompts), Len(prompts) - 1}
            /\ \A i \in 1..Len(writes) :
                  writes[i].arg = targets[i].path /\ targets[i].path \in DOMAIN files
            /\ returns[4].id = "debugger" =>
                  Len(writes) = Len(targets) /\ current = "debugger"

(* Properties of layout creation (SpecLayout) *)

(* The i-th call met no refusal of the operating system. *)
Unhindered(i) == returns[i].fail = 0

(* The layout directories that were on disk before the i-th call. *)
ExistedBefore(i) ==
    {d \in {LayoutDirs[j] : j \in 1..Len(LayoutDirs)} : IsDir(returns[i].before, d)}

(* C32: layout creation that the operating system does not hinder succeeds *)
(* whatever part of the layout is already on disk, and a second call right *)
(* after it leaves the directories and the file contents as the first call *)
(* left them.                                                              *)
C32_LayoutIdempotent ==
    /\ \A i \in 1..Len(returns) :
          Unhindered(i) =>
              /\ returns[i].id = "none"
              /\ \A j \in 1..Len(LayoutDirs) : IsDir(returns[i].after, LayoutDirs[j])
              /\ \A j \in 1..Len(LayoutFiles) :
                    /\ LayoutFiles[j].path \in DOMAIN returns[i].after
                    /\ returns[i].after[LayoutFiles[j].path] = LayoutFiles[j].content
    /\ \A i \in 1..(Len(returns) - 1) :
          (Unhindered(i) /\ Unhindered(i + 1)) => returns[i + 1].after = returns[i].after

(* Two calls in a row on a disk that held part of the layout and an older  *)
(* main.py.                                                                *)
C32_Witness ==
    /\ Len(returns) = 2 /\ Unhindered(1) /\ Unhindered(2)
    /\ ExistedBefore(1) = {"generated_api", "generated_api/app"}
    /\ LayoutFiles[1].path \in DOMAIN returns[1].before
    /\ returns[1].before[LayoutFiles[1].path] = <<"old">>
    /\ returns[2].id = "none"
    /\ ExistedBefore(2) = {LayoutDirs[j] : j \in 1..Len(LayoutDirs)}
    /\ files[LayoutFiles[1].path] = main_py_content

(* Properties of repeated generation (SpecRegenerate) *)

Max(S) == CHOOSE x \in S : \A y \in S : x >= y

(* The targets of the stage that is being repeated. *)
RunTargets == StageTargets(current, state.requirements)

(* The paths the i-th run has written. *)
PathsWritten(i) == {RunTargets[j].path : j \in 1..returns[i].written}

(* The text the runs so far have written last to path p. *)
LastWritten(p) ==
    LET i == Max({r \in 1..Len(returns) : p \in PathsWritten(r)})
        j == Max({t \in 1..returns[i].written : RunTargets[t].path = p})
    IN  Answer(RunTargets[j], returns[i].version)

(* C33: a stage that is run again on the same requirements writes the set *)
(* of paths its run before wrote, and every file holds the text that was  *)
(* written to it last and nothing else.                                   *)
C33_RegenerationOverwrites ==
    /\ \A i \in 1..(Len(returns) - 1) :
          (returns[i].id = "ok" /\ returns[i + 1].id = "ok") =>
              /\ PathsWritten(i + 1) = PathsWritten(i)
              /\ DOMAIN files = PathsWritten(i)
    /\ \A p \in DOMAIN files :
          /\ \E i \in 1..Len(returns) : p \in PathsWritten(i)
          /\ files[p] = LastWritten(p)

(* Two successful runs whose answers differ: a file of the first run holds *)
(* the answer of the second.                                               *)
C33_Witness ==
    /\ Len(returns) = 2
    /\ returns[1].id = "ok" /\ returns[2].id = "ok"
    /\ returns[1].version = "v1" /\ returns[2].version = "v2"
    /\ returns[1].written >= 3
    /\ \E j \in 1..Len(RunTargets) :
          files[RunTargets[j].path] = Response(RunTargets[j]) \o <<"v2">>

(* Properties of the pipeline, concluded further (Spec) *)

(* Test-Suite Generation has just returned or raised and nothing has run   *)
(* since.                                                                  *)
TestGenerationEnded ==
    /\ Len(returns) = 3 /\ returns[3].node = "test_generator"
    /\ Len(history) = 3 /\ current # "returned"

(* The calls ops are made target by target in list order: the LLM call of *)
(* a target, then its file write, then the LLM call of the next target.   *)
OneAfterAnother(ops, targets) ==
    /\ Len(ops) <= 2 * Len(targets)
    /\ \A i \in 1..Len(ops) :
          ops[i] = IF i % 2 = 1 THEN CallOn("llm", targets[(i + 1) \div 2].path)
                   ELSE CallOn("write", targets[i \div 2].path)

(* The stages that have begun but not ended. *)
Executing == Len(StageHistory) - Len(returns)

(* C34: at most one stage is executing at any instant, external calls are  *)
(* made only by the stage that is executing and one after the other: each  *)
(* generator issues the LLM call of an item and then its file write before *)
(* it turns to the next item of the list.                                  *)
C34_OneStageOneCall ==
    /\ Executing \in {0, 1}
    /\ Executing = 1 => (current = "debugger" /\ dpc # "idle")
    /\ TestGenerationEnded =>
          OneAfterAnother(GenerationOps, TestGeneratorTargets(state.requirements))
    /\ CodeGenerationEnded =>
          OneAfterAnother(CodeOps, CodeGeneratorTargets(state.requirements))

(* Code Generation has gone through two routes and a model in turn while   *)
(* no other stage was executing.                                           *)
C34_Witness ==
    /\ CodeGenerationEnded /\ returns[4].id = "debugger"
    /\ Len(state.requirements.endpoints) = 2
    /\ Len(CodeOps) = 2 * Len(CodeGeneratorTargets(state.requirements))
    /\ Len(CodeOps) >= 6
    /\ Executing = 0

(* Properties of termination (FairSpec) *)

(* A terminal node, the completion node or the sink, has been executed. *)
TerminalReached == Count(history, "complete") + Count(history, "error_handler") >= 1

(* C35 as stated: when every external call returns or raises, every run   *)
(* of the graph, one in which a node has been executed, reaches a terminal *)
(* node and run_workflow returns, after at most seven node executions.     *)
C35_ReachesTerminalAndReturns ==
    /\ <>(current = "returned" /\ (history # <<>> => TerminalReached))
    /\ [](Len(history) <= 7)

(* What holds of every run: run_workflow returns, after at most seven node *)
(* executions, none of them repeated.                                      *)
C35_Returns ==
    /\ <>(current = "returned")
    /\ [](Len(history) <= 7 /\ NoDup(history))

(* Properties of the pipeline, the guards (Spec) *)

(* The identifiers a node's result can carry: every node name and the     *)
(* identifiers the nodes return that name no node.                        *)
Identifiers == Nodes \cup {"documentation_generator", "error", "none"}

(* A stage has just returned an identifier and nothing has run since. *)
JustReturned ==
    /\ returns # <<>> /\ Len(history) = Len(returns)
    /\ returns[Len(returns)].id # "raised"

(* C36: whatever identifier a node with outgoing edges returns, exactly    *)
(* one of its outgoing edges has a guard that accepts it and the two       *)
(* guards never agree (the graph is fixed, so this is looked at once, when *)
(* it has been built); the node executed after a stage is the target of    *)
(* the one edge that accepts what the stage returned.                      *)
C36_ExactlyOneGuardAccepts ==
    /\ current = EntryPoint =>
          \A n \in {Edges[i][1] : i \in 1..Len(Edges)}, x \in Identifiers :
              /\ Cardinality(Accepting(n, x)) = 1
              /\ is_success(x) # is_error(x)
    /\ JustReturned =>
          LET n == returns[Len(returns)].node
              id == returns[Len(returns)].id
          IN  /\ id \in Identifiers
              /\ Cardinality(Accepting(n, id)) = 1
              /\ \A i \in Accepting(n, id) : current = Edges[i][2]

(* Verification/Repair has returned an identifier that names no node: only *)
(* its success edge accepts.                                               *)
C36_Witness ==
    /\ JustReturned
    /\ returns[Len(returns)].node = "debugger"
    /\ returns[Len(returns)].id = "documentation_generator"
    /\ Accepting("debugger", "documentation_generator") = {9}
    /\ current = "complete"

(* Properties of the repair pass (Spec) *)

(* out is the string form of an exit code. *)
IsExitCode(out) == Len(out) = 1 /\ out = ExitCodeOutput(out[1].name[1])

(* The first test execution has failed and the second has not been made. *)
RepairUnderWay == dpc \in {"REPAIRING", "FIXING", "RE-RUN"}

(* The repair pass has read, prompted for or overwritten nothing. *)
NothingRepaired ==
    LET ops == RepairOps
    IN  \A i \in 1..Len(ops) : ops[i].op \notin {"read", "llm", "write"}

(* C37 as stated: whenever run_tests reports a failure, the output handed  *)
(* to the repair pass is the string form of the exit code, the extraction  *)
(* finds no file in it, and the pass makes no LLM call and overwrites no   *)
(* file before the re-run.                                                 *)
C37_FailureOutputIsExitCode ==
    RepairUnderWay =>
        /\ IsExitCode(test_output)
        /\ _extract_failing_files(test_output) = <<>>
        /\ NothingRepaired

(* C37 amended: when pytest.main returns a non-zero exit code, the output  *)
(* handed to the repair pass is the string form of that code, in which the *)
(* extraction finds no file, so that the pass reads no file, makes no LLM  *)
(* call and overwrites no file before the re-run.                          *)
C37_ExitCodeNamesNoFile ==
    (test_output = ExitCodeOutput("1") /\ dpc # "idle") =>
        (CountOp("run_tests") = 1 =>
            /\ _extract_failing_files(test_output) = <<>>
            /\ queue = <<>>
            /\ NothingRepaired)

(* The pass is over and the re-run is due: test files are on disk, the     *)
(* exit code named none of them, and the pass touched none.                *)
C37_Witness ==
    /\ dpc = "RE-RUN"
    /\ test_output = ExitCodeOutput("1")
    /\ RepairOps = <<Call("fix_test_failures")>>
    /\ TestFiles # {}

(* The repair pass was left in the middle: its last call is the read or    *)
(* the prompt of a file that no overwrite follows.                         *)
FailedInPass ==
    /\ dpc = "FAILED"
    /\ RunTestsAt # {}
    /\ LET ops == RepairOps
       IN  Len(ops) >= 2 /\ ops[Len(ops)].op \in {"read", "llm"}

(* The pass stopped where it failed: no second test execution, the files   *)
(* overwritten before hold the repaired text, and the failing files after  *)
(* the one that failed are neither read nor overwritten.                   *)
PassStopped ==
    LET ops == RepairOps
        written == {ops[i].arg : i \in {j \in 1..Len(ops) : ops[j].op = "write"}}
        n == Cardinality({j \in 1..Len(ops) : ops[j].op = "write"})
        failing == _extract_failing_files(test_output)
    IN  /\ CountOp("run_tests") = 1
        /\ \A p \in written : files[p] = <<"fixed">>
        /\ Cardinality({j \in 1..Len(ops) : ops[j].op = "read"}) = n + 1
        /\ ops[2 + 3 * n].arg = failing[n + 1]
        /\ queue = SubSeq(failing, n + 2, Len(failing))
        /\ \A i \in 1..Len(queue) :
              (queue[i] \in DOMAIN files /\ queue[i] \notin written)
                  => files[queue[i]] # <<"fixed">>

(* C38 as stated: when the read of a failing file or the LLM call raises   *)
(* in the middle of the repair pass, Verification/Repair routes to the     *)
(* sink without a second test execution, the files overwritten earlier in  *)
(* the pass keep their new content and the remaining failing files are     *)
(* left untouched.                                                         *)
C38_MidPassFailureToSink ==
    FailedInPass =>
        /\ PassStopped
        /\ DebuggerEnded /\ returns[5].id = "error_handler"
        /\ NextAfter(5) = "error_handler"

(* The same without the routing. *)
C38_MidPassFailureStops == FailedInPass => PassStopped

(* Properties of the State's frame (Spec) *)

(* C39: a step of any node other than Requirements Extraction, be it a     *)
(* stage that succeeds or fails, the completion node or the sink, leaves   *)
(* state.requirements and the source reference as they were.               *)
C39_OnlyParserWritesRequirements ==
    [][(current \in Nodes \ {"srs_parser"}) =>
          (state'.requirements = state.requirements
           /\ state'.srs_path = state.srs_path)]_vars

(* A run through all stages and the completion node ends with the          *)
(* requirements the extraction stored and the path it was started with.    *)
C39_Witness ==
    /\ AllStagesSucceeded
    /\ Len(state.requirements.endpoints) = 2
    /\ state.requirements.keys = {"endpoints", "models", "auth", "features"}
    /\ state.srs_path = "test.docx"

====
